---- MODULE Spec2Model ----
(***************************************************************************)
(* Model of the band suite driver (scripts/ci_band_suite.py) and of the   *)
(* import smoke test (tests/test_import_sost.py).                          *)
(*                                                                         *)
(* Text is a sequence of one-character strings, so that Python's           *)
(* `cand in help_text` is a real substring test.  A fixture path is a      *)
(* pair <<directory, stem>>; Python orders paths part by part.  The bytes  *)
(* of a file are a sequence of small integers.                             *)
(*                                                                         *)
(* Spec        runs of main() into one outdir, one after the other, with a *)
(*             tool that writes the reports its input calls for            *)
(* ReportSpec  one run of main() with a tool that may write any reports    *)
(* FlagSpec    read_help, pick_flags and the command line, over the help   *)
(*             texts a tool may print                                      *)
(* TestSpec    test_import_sost_and_version over the libraries installed   *)
(***************************************************************************)
EXTENDS Integers, Sequences, FiniteSets, TLC

\* ------------------------------------------------------------------ bounds
\* driver runs into the same outdir
MaxRuns == 2
\* files the glob pattern can match in one run
MaxFixtures == 2
\* report files the external tool writes in one invocation
MaxWritten == 2
\* options listed in the help text of the tool (flag detection)
MaxOpts == 2
\* length of the version string of the imported library
MaxVerLen == 2

\* ------------------------------------------------------------ environment
\* the CSV files that can exist below the repository: <<directory, stem>>
Fixtures == {<<1, 1>>, <<1, 2>>, <<2, 1>>}

\* return codes of the external tool: killed by a signal, success, failure
RCs == {-9, 0, 1}

VARIABLES
    \* position of main(): "idle" before a run, "tool", "glob", "loop", "done"
    pc,
    \* number of the current run (the logical clock behind timestamp_utc)
    run,
    \* the repository at the time of the run
    tool_exists, matched,
    \* files below outdir, kept from one run to the next
    failures_txt, summary_json, log_files, out_dirs, report_files,
    \* locals of main()
    input_flag, outdir_flag, csv_files, results, failures, exit_status,
    \* every command handed to run_capture during the current run
    invoked,
    \* flag detection on its own: help text, detected flags, command
    fl_pc, fl_help, fl_flags, fl_cmd,
    \* smoke test: the library, position of the test
    sost, t_pc

drv_vars == <<pc, run, tool_exists, matched, failures_txt, summary_json, log_files,
              out_dirs, report_files, input_flag, outdir_flag, csv_files, results,
              failures, exit_status, invoked>>
fl_vars == <<fl_pc, fl_help, fl_flags, fl_cmd>>
t_vars == <<sost, t_pc>>
vars == <<drv_vars, fl_vars, t_vars>>

\* ------------------------------------------------------------------- text
C_input_csv == <<"-", "-", "i", "n", "p", "u", "t", "-", "c", "s", "v">>
C_input_csv_u == <<"-", "-", "i", "n", "p", "u", "t", "_", "c", "s", "v">>
C_input == <<"-", "-", "i", "n", "p", "u", "t">>
C_i == <<"-", "i">>
C_outdir == <<"-", "-", "o", "u", "t", "d", "i", "r">>
C_out_dir == <<"-", "-", "o", "u", "t", "-", "d", "i", "r">>
C_output_dir == <<"-", "-", "o", "u", "t", "p", "u", "t", "-", "d", "i", "r">>
C_o == <<"-", "o">>

\* Python's None for a flag; every candidate is a non-empty text
None == <<>>

InputCands == <<C_input_csv, C_input_csv_u, C_input, C_i>>
OutdirCands == <<C_outdir, C_out_dir, C_output_dir, C_o>>

\* `cand in help_text`
Contains(text, cand) ==
    \E k \in 0..(Len(text) - Len(cand)) : SubSeq(text, k + 1, k + Len(cand)) = cand

\* for cand in cands: if cand in help_text: flag = cand; break
RECURSIVE FirstCand(_, _, _)
FirstCand(cands, k, text) ==
    IF k > Len(cands) THEN None
    ELSE IF Contains(text, cands[k]) THEN cands[k]
    ELSE FirstCand(cands, k + 1, text)

\* mutant: the candidates are tried in reverse order
RECURSIVE LastCand(_, _, _)
LastCand(cands, k, text) ==
    IF k < 1 THEN None
    ELSE IF Contains(text, cands[k]) THEN cands[k]
    ELSE LastCand(cands, k - 1, text)
pick_flags_reversed(help_text) ==
    <<LastCand(InputCands, Len(InputCands), help_text),
      LastCand(OutdirCands, Len(OutdirCands), help_text)>>

pick_flags(help_text) ==
    <<FirstCand(InputCands, 1, help_text), FirstCand(OutdirCands, 1, help_text)>>

\* lines 34-38: the captured output, or "" when there is none
read_help(out) == IF out # <<>> THEN out ELSE <<>>

\* ------------------------------------------------------------ command line
NoPath == <<0, 0>>
Arg(kind, text, path) == [kind |-> kind, text |-> text, path |-> path]
ArgExe == Arg("exe", <<>>, NoPath)
ArgScript == Arg("script", <<>>, NoPath)
ArgHelp == Arg("flag", <<"-", "-", "h", "e", "l", "p">>, NoPath)

stem(csv_path) == csv_path[2]

\* cmd of read_help
HelpCmd == <<ArgExe, ArgScript, ArgHelp>>

\* cmd of one fixture; band_out is the directory sost_out_<band>
FixtureCmd(in_flag, out_flag, csv_path, band_out) ==
    <<ArgExe, ArgScript>>
    \o (IF in_flag # None
        THEN <<Arg("flag", in_flag, NoPath), Arg("csv", <<>>, csv_path)>>
        ELSE <<Arg("csv", <<>>, csv_path)>>)
    \o (IF out_flag # None
        THEN <<Arg("flag", out_flag, NoPath), Arg("dir", <<>>, <<0, band_out>>)>>
        ELSE <<>>)

\* ------------------------------------------------------------------ files
ReportNames == <<"dd_report.json", "ddr_report.json", "e_report.json">>
ReportNameSet == {ReportNames[k] : k \in 1..Len(ReportNames)}
Bands == {stem(p) : p \in Fixtures}

NoFile == [exists |-> FALSE, bytes |-> <<>>]
File(b) == [exists |-> TRUE, bytes |-> b]

\* stand-in for the SHA-256 digest: a function of the bytes and of nothing else
RECURSIVE Sha256From(_, _)
Sha256From(h, b) ==
    IF b = <<>> THEN h ELSE Sha256From((h * 33 + Head(b) + 1) % 65521, Tail(b))
Sha256(b) == Sha256From(5381, b)

\* mutant: the digest is taken before any byte is fed to it
sha256_file_empty(files, band_out, name) == Sha256(<<>>)

sha256_file(files, band_out, name) == Sha256(files[band_out][name].bytes)

\* what the tool prints for one invocation
Output(r, csv_path) == [run |-> r, csv |-> csv_path]
NoLog == [exists |-> FALSE, text |-> Output(0, NoPath)]

\* the bytes the tool writes into report k on invocation (r, csv_path)
ReportBytes(r, csv_path, k) == <<r, csv_path[1], csv_path[2], k>>

\* the reports one invocation may write, by their place in ReportNames: none when
\* the tool is not told the output directory, else any few of them
ToolWrites(out_flag, csv_path, rc) ==
    IF out_flag = None THEN {{}}
    ELSE {W \in SUBSET (1..Len(ReportNames)) : Cardinality(W) <= MaxWritten}

\* a tool that writes, when it succeeds, the reports its input calls for: all of
\* them for <<1, 2>>, else the one numbered as the directory of the input
ProfileWrites(out_flag, csv_path, rc) ==
    IF out_flag = None \/ rc # 0 THEN {{}}
    ELSE IF csv_path = <<1, 2>> THEN {1..Len(ReportNames)}
    ELSE {{csv_path[1]}}

\* the failures file: absent, a note of a configuration error, or failure lines
NoFailuresTxt == [exists |-> FALSE, note |-> "", lines |-> <<>>]
NoteTxt(n) == [exists |-> TRUE, note |-> n, lines |-> <<>>]
LinesTxt(ls) == [exists |-> TRUE, note |-> "", lines |-> ls]
MissingTool == "Missing scripts/run_sost.py"
NoCsvMatched == "No CSV matched pattern"

NoSummary ==
    [exists |-> FALSE, timestamp_utc |-> 0, total |-> 0, ok |-> 0, failed |-> 0,
     bands |-> <<>>, run_sost_help_detect |-> <<None, None>>]

\* ----------------------------------------------------------------- sorted
Less(p, q) == p[1] < q[1] \/ (p[1] = q[1] /\ p[2] < q[2])

RECURSIVE sorted(_)
sorted(S) ==
    IF S = {} THEN <<>>
    ELSE LET m == CHOOSE x \in S : \A y \in S : x = y \/ Less(x, y)
         IN  <<m>> \o sorted(S \ {m})

\* mutant: only positive codes count as failed
RECURSIVE CountRc_positive(_, _)
CountRc_positive(rs, zero) ==
    IF rs = <<>> THEN 0
    ELSE (IF (IF zero THEN Head(rs).rc = 0 ELSE Head(rs).rc > 0) THEN 1 ELSE 0)
         + CountRc_positive(Tail(rs), zero)

\* sum(1 for r in results if <cond>)
RECURSIVE CountRc(_, _)
CountRc(rs, zero) ==
    IF rs = <<>> THEN 0
    ELSE (IF (Head(rs).rc = 0) = zero THEN 1 ELSE 0) + CountRc(Tail(rs), zero)

\* the help texts of the tool installed for the suite runs: no output at all,
\* or a usage line naming --input-csv and --outdir
UsagePrefix == <<"u", "s", "a", "g", "e", ":", " ", "[", "-", "h", "]">>
SuiteHelpOutputs == {<<>>, UsagePrefix \o <<" ">> \o C_input_csv \o <<" ">> \o C_outdir}

\* ------------------------------------------------------------------- main
DrvInit ==
    /\ pc = "idle"
    /\ run = 0
    /\ tool_exists = TRUE
    /\ matched = {}
    /\ failures_txt = NoFailuresTxt
    /\ summary_json = NoSummary
    /\ log_files = [b \in Bands |-> NoLog]
    /\ out_dirs = {}
    /\ report_files = [b \in Bands |-> [n \in ReportNameSet |-> NoFile]]
    /\ input_flag = None
    /\ outdir_flag = None
    /\ csv_files = <<>>
    /\ results = <<>>
    /\ failures = <<>>
    /\ exit_status = -1
    /\ invoked = <<>>

\* lines 70-79: a run starts in the repository as it is then
StartRun ==
    /\ run' = run + 1
    /\ \E te \in BOOLEAN, m \in SUBSET Fixtures :
          /\ Cardinality(m) <= MaxFixtures
          /\ tool_exists' = te
          /\ matched' = m
    /\ pc' = "tool"
    /\ input_flag' = None
    /\ outdir_flag' = None
    /\ csv_files' = <<>>
    /\ results' = <<>>
    /\ failures' = <<>>
    /\ exit_status' = -1
    /\ invoked' = <<>>
    /\ UNCHANGED <<failures_txt, summary_json, log_files, out_dirs, report_files>>

\* the first run into outdir
main_start ==
    /\ pc = "idle"
    /\ StartRun

\* a later run into the same outdir
main_again ==
    /\ pc = "done"
    /\ run < MaxRuns
    /\ StartRun

\* mutant: the help probe is made before the tool is looked for
main_missing_tool_probed ==
    /\ pc = "tool"
    /\ ~tool_exists
    /\ failures_txt' = NoteTxt(MissingTool)
    /\ exit_status' = 2
    /\ pc' = "done"
    /\ invoked' = Append(invoked, HelpCmd)
    /\ UNCHANGED <<run, tool_exists, matched, summary_json, log_files, out_dirs,
                   report_files, input_flag, outdir_flag, csv_files, results,
                   failures>>

\* lines 80-85
main_missing_tool ==
    /\ pc = "tool"
    /\ ~tool_exists
    /\ failures_txt' = NoteTxt(MissingTool)
    /\ exit_status' = 2
    /\ pc' = "done"
    /\ UNCHANGED <<run, tool_exists, matched, summary_json, log_files, out_dirs,
                   report_files, input_flag, outdir_flag, csv_files, results,
                   failures, invoked>>

\* lines 87-91
main_read_help ==
    /\ pc = "tool"
    /\ tool_exists
    /\ \E out \in SuiteHelpOutputs :
          LET help_text == read_help(out)
          IN  /\ input_flag' = pick_flags(help_text)[1]
              /\ outdir_flag' = pick_flags(help_text)[2]
    /\ invoked' = Append(invoked, HelpCmd)
    /\ pc' = "glob"
    /\ UNCHANGED <<run, tool_exists, matched, failures_txt, summary_json, log_files,
                   out_dirs, report_files, csv_files, results, failures, exit_status>>

\* lines 93-99, no file matched
main_no_csv ==
    /\ pc = "glob"
    /\ sorted(matched) = <<>>
    /\ csv_files' = sorted(matched)
    /\ failures_txt' = NoteTxt(NoCsvMatched)
    /\ exit_status' = 2
    /\ pc' = "done"
    /\ UNCHANGED <<run, tool_exists, matched, summary_json, log_files, out_dirs,
                   report_files, input_flag, outdir_flag, results, failures, invoked>>

\* lines 93-102, some file matched
main_glob ==
    /\ pc = "glob"
    /\ sorted(matched) # <<>>
    /\ csv_files' = sorted(matched)
    /\ pc' = "loop"
    /\ UNCHANGED <<run, tool_exists, matched, failures_txt, summary_json, log_files,
                   out_dirs, report_files, input_flag, outdir_flag, results, failures,
                   exit_status, invoked>>

\* mutant: the loop stops at the first fixture that failed
HasNext_stop(rs, files) ==
    Len(rs) < Len(files) /\ (IF rs = <<>> THEN TRUE ELSE rs[Len(rs)].rc = 0)

\* the for loop of line 104 has a next fixture
HasNext(rs, files) == Len(rs) < Len(files)

\* lines 123-127: the reports found in band_out
CollectReports(files, band_out) ==
    [n \in {x \in ReportNameSet : files[band_out][x].exists} |->
        [path |-> <<band_out, n>>, sha256 |-> sha256_file(files, band_out, n)]]

\* mutant: a negative return code is not taken for a failure
FailureLines_positive(fs, band, rc, csv_path) ==
    IF rc > 0 THEN Append(fs, [band |-> band, rc |-> rc, csv |-> csv_path]) ELSE fs

\* lines 140-141
FailureLines(fs, band, rc, csv_path) ==
    IF rc # 0 THEN Append(fs, [band |-> band, rc |-> rc, csv |-> csv_path]) ELSE fs

\* what the installed tool may write: as its profile says, or anything
Writes(tool, out_flag, csv_path, rc) ==
    IF tool = "profile" THEN ProfileWrites(out_flag, csv_path, rc)
    ELSE ToolWrites(out_flag, csv_path, rc)

\* lines 104-141: one pass of the loop, with the tool installed
run_fixture(tool) ==
    /\ pc = "loop"
    /\ HasNext(results, csv_files)
    /\ LET csv_path == csv_files[Len(results) + 1]
           band == stem(csv_path)
           band_out == band
           cmd == FixtureCmd(input_flag, outdir_flag, csv_path, band_out)
       IN  \E rc \in RCs : \E W \in Writes(tool, outdir_flag, csv_path, rc) :
              LET files == [report_files EXCEPT ![band_out] =
                               [n \in ReportNameSet |->
                                   IF \E k \in W : ReportNames[k] = n
                                   THEN File(ReportBytes(run, csv_path,
                                          CHOOSE k \in W : ReportNames[k] = n))
                                   ELSE @[n]]]
              IN  /\ out_dirs' = out_dirs \cup {band_out}
                  /\ invoked' = Append(invoked, cmd)
                  /\ report_files' = files
                  /\ log_files' = [log_files EXCEPT ![band] =
                                      [exists |-> TRUE, text |-> Output(run, csv_path)]]
                  /\ results' = Append(results,
                         [band |-> band, csv |-> csv_path, rc |-> rc,
                          outdir |-> band_out,
                          reports |-> CollectReports(files, band_out),
                          log_file |-> band])
                  /\ failures' = FailureLines(failures, band, rc, csv_path)
    /\ UNCHANGED <<pc, run, tool_exists, matched, failures_txt, summary_json,
                   input_flag, outdir_flag, csv_files, exit_status>>

main_run_fixture == run_fixture("profile")

main_run_fixture_any == run_fixture("any")

\* lines 143-151
Summary(rs, now, in_flag, out_flag) ==
    [exists |-> TRUE, timestamp_utc |-> now, total |-> Len(rs),
     ok |-> CountRc(rs, TRUE), failed |-> CountRc(rs, FALSE), bands |-> rs,
     run_sost_help_detect |-> <<in_flag, out_flag>>]

\* lines 158-167: what the failures file is after the run, and the status
FailuresTxtAfter(old, fs) == IF fs # <<>> THEN LinesTxt(fs) ELSE old
ExitStatus(fs) == IF fs # <<>> THEN 1 ELSE 0

\* lines 143-167
main_aggregate ==
    /\ pc = "loop"
    /\ ~HasNext(results, csv_files)
    /\ summary_json' = Summary(results, run, input_flag, outdir_flag)
    /\ failures_txt' = FailuresTxtAfter(failures_txt, failures)
    /\ exit_status' = ExitStatus(failures)
    /\ pc' = "done"
    /\ UNCHANGED <<run, tool_exists, matched, log_files, out_dirs, report_files,
                   input_flag, outdir_flag, csv_files, results, failures, invoked>>

\* -------------------------------------------------- flag detection, alone
\* options a tool may list in its help text
C_ignore_errors ==
    <<"-", "-", "i", "g", "n", "o", "r", "e", "-", "e", "r", "r", "o", "r", "s">>
C_overwrite == <<"-", "-", "o", "v", "e", "r", "w", "r", "i", "t", "e">>
C_input_file == <<"-", "-", "i", "n", "p", "u", "t", "-", "f", "i", "l", "e">>
C_verbose == <<"-", "-", "v", "e", "r", "b", "o", "s", "e">>

Opts ==
    {C_input_csv, C_input_csv_u, C_input, C_i, C_outdir, C_out_dir, C_output_dir, C_o,
     C_ignore_errors, C_overwrite, C_input_file, C_verbose}

OptSeqs ==
    {os \in UNION {[1..n -> Opts] : n \in 0..MaxOpts} :
        \A a, b \in DOMAIN os : a # b => os[a] # os[b]}

RECURSIVE Usage(_)
Usage(os) ==
    IF os = <<>> THEN UsagePrefix
    ELSE Usage(SubSeq(os, 1, Len(os) - 1)) \o <<" ">> \o os[Len(os)]

\* what `run_sost.py --help` can print: nothing, or a usage line
HelpOutputs == {<<>>} \cup {Usage(os) : os \in OptSeqs}

FlInit ==
    /\ fl_pc = "help"
    /\ fl_help = <<>>
    /\ fl_flags = <<None, None>>
    /\ fl_cmd = <<>>

\* line 90
fl_read_help ==
    /\ fl_pc = "help"
    /\ \E out \in HelpOutputs : fl_help' = read_help(out)
    /\ fl_pc' = "pick"
    /\ UNCHANGED <<fl_flags, fl_cmd>>

\* line 91
fl_pick_flags ==
    /\ fl_pc = "pick"
    /\ fl_flags' = pick_flags(fl_help)
    /\ fl_pc' = "cmd"
    /\ UNCHANGED <<fl_help, fl_cmd>>

\* lines 109-116
fl_build_cmd ==
    /\ fl_pc = "cmd"
    /\ \E csv_path \in Fixtures :
          fl_cmd' = FixtureCmd(fl_flags[1], fl_flags[2], csv_path, stem(csv_path))
    /\ fl_pc' = "built"
    /\ UNCHANGED <<fl_help, fl_flags>>

FlagNext ==
    \/ fl_read_help /\ UNCHANGED <<drv_vars, t_vars>>
    \/ fl_pick_flags /\ UNCHANGED <<drv_vars, t_vars>>
    \/ fl_build_cmd /\ UNCHANGED <<drv_vars, t_vars>>

\* ------------------------------------------------------------- smoke test
VerChars == {"0", "1", "."}
Texts == UNION {[1..n -> VerChars] : n \in 0..MaxVerLen}

\* the values a library may bind to __version__: type name and payload
Values ==
    {[type |-> "str", value |-> v] : v \in Texts}
    \cup {[type |-> "bytes", value |-> v] : v \in {<<>>, <<"1">>}}
    \cup {[type |-> "int", value |-> v] : v \in {<<"0">>, <<"1">>}}
    \cup {[type |-> "NoneType", value |-> <<>>]}

Libraries ==
    {[importable |-> i, has_version |-> h, version |-> v] :
        i \in BOOLEAN, h \in BOOLEAN, v \in Values}

\* Python's truth value of an object
Truthy(v) ==
    CASE v.type = "NoneType" -> FALSE
      [] v.type = "int" -> v.value # <<"0">>
      [] OTHER -> v.value # <<>>

\* mutant: bytes pass for text
isinstance_str_bytes(v) == v.type \in {"str", "bytes"}

isinstance_str(v) == v.type = "str"

NoLibrary ==
    [importable |-> FALSE, has_version |-> FALSE,
     version |-> [type |-> "NoneType", value |-> <<>>]]

TInit ==
    /\ sost = NoLibrary
    /\ t_pc = "idle"

\* the test is collected against some installed library
t_collect ==
    /\ t_pc = "idle"
    /\ sost' \in Libraries
    /\ t_pc' = "import"

\* line 5
t_import ==
    /\ t_pc = "import"
    /\ t_pc' = IF sost.importable THEN "hasattr" ELSE "failed"
    /\ UNCHANGED sost

\* line 7
t_hasattr ==
    /\ t_pc = "hasattr"
    /\ t_pc' = IF sost.has_version THEN "isinstance" ELSE "failed"
    /\ UNCHANGED sost

\* line 8
t_isinstance ==
    /\ t_pc = "isinstance"
    /\ t_pc' = IF isinstance_str(sost.version) THEN "truth" ELSE "failed"
    /\ UNCHANGED sost

\* line 9
t_truth ==
    /\ t_pc = "truth"
    /\ t_pc' = IF Truthy(sost.version) THEN "passed" ELSE "failed"
    /\ UNCHANGED sost

TestNext ==
    \/ t_collect /\ UNCHANGED <<drv_vars, fl_vars>>
    \/ t_import /\ UNCHANGED <<drv_vars, fl_vars>>
    \/ t_hasattr /\ UNCHANGED <<drv_vars, fl_vars>>
    \/ t_isinstance /\ UNCHANGED <<drv_vars, fl_vars>>
    \/ t_truth /\ UNCHANGED <<drv_vars, fl_vars>>

\* ------------------------------------------------------------------- Spec
Init == DrvInit /\ FlInit /\ TInit

Next ==
    \/ main_start /\ UNCHANGED <<fl_vars, t_vars>>
    \/ main_again /\ UNCHANGED <<fl_vars, t_vars>>
    \/ main_missing_tool /\ UNCHANGED <<fl_vars, t_vars>>
    \/ main_read_help /\ UNCHANGED <<fl_vars, t_vars>>
    \/ main_no_csv /\ UNCHANGED <<fl_vars, t_vars>>
    \/ main_glob /\ UNCHANGED <<fl_vars, t_vars>>
    \/ main_run_fixture /\ UNCHANGED <<fl_vars, t_vars>>
    \/ main_aggregate /\ UNCHANGED <<fl_vars, t_vars>>

\* one run, with a tool that may write any reports
ReportNext ==
    \/ main_start /\ UNCHANGED <<fl_vars, t_vars>>
    \/ main_missing_tool /\ UNCHANGED <<fl_vars, t_vars>>
    \/ main_read_help /\ UNCHANGED <<fl_vars, t_vars>>
    \/ main_no_csv /\ UNCHANGED <<fl_vars, t_vars>>
    \/ main_glob /\ UNCHANGED <<fl_vars, t_vars>>
    \/ main_run_fixture_any /\ UNCHANGED <<fl_vars, t_vars>>
    \/ main_aggregate /\ UNCHANGED <<fl_vars, t_vars>>

Spec == Init /\ [][Next]_vars
ReportSpec == Init /\ [][ReportNext]_vars
FlagSpec == Init /\ [][FlagNext]_vars
TestSpec == Init /\ [][TestNext]_vars

\* ----------------------------------------------------------------- claims
\* the current run is a configuration error: no tool, or nothing matched
ConfigErrorRun == ~tool_exists \/ matched = {}

Failing(rs) == {i \in DOMAIN rs : rs[i].rc # 0}
Passing(rs) == {i \in DOMAIN rs : rs[i].rc = 0}

\* the commands of the run that are not the help probe
FixtureCmds == SelectSeq(invoked, LAMBDA c : c # HelpCmd)
CsvOf(cmd) == (CHOOSE k \in DOMAIN cmd : cmd[k].kind = "csv")

\* C1: when main() has returned, its status is 2 exactly when the tool is missing
\* or the pattern matched nothing; otherwise 1 exactly when some fixture's run
\* returned a nonzero code, wherever that fixture stands; otherwise 0.
C1_ExitStatus ==
    pc = "done" =>
        /\ exit_status \in {0, 1, 2}
        /\ (exit_status = 2) <=> ConfigErrorRun
        /\ (exit_status = 1) <=> (~ConfigErrorRun /\ Failing(results) # {})
        /\ (exit_status = 0) <=> (~ConfigErrorRun /\ Failing(results) = {})

\* a run of two fixtures whose first failed and whose last passed
C1_Witness ==
    /\ pc = "done"
    /\ exit_status = 1
    /\ Len(results) = 2
    /\ results[1].rc # 0
    /\ results[2].rc = 0

\* C2: a written summary has total = len(bands), ok + failed = total, ok the
\* number of bands with rc = 0 and failed the number with rc # 0 (negative codes
\* included); after a run that wrote it, total is the number of files matched.
C2_SummaryCounts ==
    /\ summary_json.exists =>
          /\ summary_json.total = Len(summary_json.bands)
          /\ summary_json.ok + summary_json.failed = summary_json.total
          /\ summary_json.ok = Cardinality(Passing(summary_json.bands))
          /\ summary_json.failed = Cardinality(Failing(summary_json.bands))
    /\ (pc = "done" /\ exit_status \in {0, 1}) =>
          /\ summary_json.exists
          /\ summary_json.timestamp_utc = run
          /\ summary_json.total = Cardinality(matched)

\* a summary counting a signal-killed band and a passing band
C2_Witness ==
    /\ pc = "done"
    /\ summary_json.timestamp_utc = run
    /\ summary_json.total = 2
    /\ \E i \in DOMAIN summary_json.bands : summary_json.bands[i].rc < 0
    /\ \E i \in DOMAIN summary_json.bands : summary_json.bands[i].rc = 0

\* C3: with the tool present and some fixture matched, the fixtures are run one
\* after the other in sorted order, each once, whatever the codes of the ones
\* before; at the end every matched fixture has been run and the summary's bands
\* are one record per matched fixture in that order.
C3_EveryFixtureOnce ==
    (pc \in {"loop", "done"} /\ ~ConfigErrorRun) =>
        /\ Len(FixtureCmds) = Len(results)
        /\ \A i \in DOMAIN results :
              /\ results[i].csv \in matched
              /\ FixtureCmds[i][CsvOf(FixtureCmds[i])].path = results[i].csv
        /\ \A i, j \in DOMAIN results : i < j => Less(results[i].csv, results[j].csv)
        /\ \A i \in DOMAIN results, p \in matched :
              Less(p, results[i].csv) => \E j \in 1..(i - 1) : results[j].csv = p
        /\ pc = "done" =>
              /\ {results[i].csv : i \in DOMAIN results} = matched
              /\ summary_json.bands = results

\* both fixtures of a run were run although the first one failed
C3_Witness ==
    /\ pc = "done"
    /\ Cardinality(matched) = 2
    /\ Len(FixtureCmds) = 2
    /\ results[1].rc # 0

\* C4 as stated: a configuration-error run returns 2 with the note written and
\* the tool never invoked in any form, the help probe included.
C4_NeverInvoked ==
    (pc = "done" /\ ConfigErrorRun) =>
        /\ exit_status = 2
        /\ failures_txt.exists /\ failures_txt.note \in {MissingTool, NoCsvMatched}
        /\ invoked = <<>>

\* C4 amended: a configuration-error run returns 2 with the note written, runs
\* no fixture, and writes no summary, log, output directory or report; the tool is
\* never invoked when it is missing, and is invoked once, for the help probe
\* alone, when it exists and nothing matched.
C4_NoFixtureWork ==
    /\ []((pc = "done" /\ ConfigErrorRun) =>
            /\ exit_status = 2
            /\ failures_txt = NoteTxt(IF tool_exists THEN NoCsvMatched ELSE MissingTool)
            /\ results = <<>>
            /\ invoked = (IF tool_exists THEN <<HelpCmd>> ELSE <<>>))
    /\ [][(pc \in {"tool", "glob", "loop"} /\ ConfigErrorRun) =>
            UNCHANGED <<summary_json, log_files, out_dirs, report_files>>]_vars

\* a second run that matched nothing, after a run that wrote a summary
C4_Witness ==
    /\ pc = "done"
    /\ exit_status = 2
    /\ tool_exists
    /\ matched = {}
    /\ invoked = <<HelpCmd>>
    /\ summary_json.exists

\* C5: when a run ends, no band of it whose run exited 0 is named in
\* band_suite_failures.txt.
C5_PassingBandNotListed ==
    (pc = "done" /\ ~ConfigErrorRun) =>
        \A i \in DOMAIN results :
            results[i].rc = 0 =>
                ~\E k \in DOMAIN failures_txt.lines :
                    failures_txt.lines[k].band = results[i].band

\* C6: after a run, band_suite_failures.txt exists only if that run failed, and
\* the summary is the one of the latest run that wrote one.
C6_FailuresOnlyOnFailure ==
    pc = "done" =>
        /\ failures_txt.exists <=> exit_status # 0
        /\ exit_status \in {0, 1} => summary_json.timestamp_utc = run

\* C8: two distinct fixtures of one run have distinct output directories and
\* distinct log files, and no report recorded for one was written for another.
C8_IsolatedArtifacts ==
    \A i, j \in DOMAIN results :
        i # j =>
            /\ results[i].outdir # results[j].outdir
            /\ results[i].log_file # results[j].log_file

\* C9: right after a fixture's run its reports mapping has an entry for exactly
\* the known names present in its output directory, each with the path and the
\* digest of the bytes then in the file; whether reports are present changes
\* neither the counts nor the exit status, which follow the return codes.
C9_ReportsRecorded ==
    /\ (pc \in {"loop", "done"} /\ results # <<>>) =>
          LET r == results[Len(results)]
          IN  /\ r.outdir \in out_dirs
              /\ DOMAIN r.reports =
                    {n \in ReportNameSet : report_files[r.outdir][n].exists}
              /\ \A n \in DOMAIN r.reports :
                    /\ r.reports[n].path = <<r.outdir, n>>
                    /\ r.reports[n].sha256 = Sha256(report_files[r.outdir][n].bytes)
    /\ (pc = "done" /\ ~ConfigErrorRun) =>
          /\ summary_json.failed = Cardinality(Failing(results))
          /\ exit_status = (IF Failing(results) = {} THEN 0 ELSE 1)

\* a band that passed with one report recorded, left there by the run of
\* another fixture, and another report missing
C9_Witness ==
    /\ pc = "done"
    /\ exit_status = 0
    /\ results # <<>>
    /\ LET r == results[Len(results)]
       IN  /\ \E n \in DOMAIN r.reports :
                 SubSeq(report_files[r.outdir][n].bytes, 2, 3) # r.csv
           /\ DOMAIN r.reports # ReportNameSet

\* ------------------------------------------------- claims, flag detection
RECURSIVE Tokens(_, _)
Tokens(text, cur) ==
    IF text = <<>> THEN {cur}
    ELSE IF Head(text) = " " THEN {cur} \cup Tokens(Tail(text), <<>>)
    ELSE Tokens(Tail(text), Append(cur, Head(text)))

\* the help text lists the flag as an option of its own
Offers(text, flag) == flag \in Tokens(text, <<>>)

\* flag is the first of cands, in their order, whose spelling occurs in text
FirstOccurring(cands, text, flag) ==
    IF \A k \in DOMAIN cands : ~Contains(text, cands[k])
    THEN flag = None
    ELSE \E k \in DOMAIN cands :
            /\ flag = cands[k]
            /\ Contains(text, cands[k])
            /\ \A m \in 1..(k - 1) : ~Contains(text, cands[m])

\* C7 amended: each flag is the first alias of its group, in preference order,
\* whose spelling occurs anywhere in the help text, be it inside a longer option;
\* with no alias of a group occurring the flag is None, the path is passed
\* positionally and no output-directory argument is appended.
C7_FirstAliasInText ==
    /\ fl_pc \in {"cmd", "built"} =>
          /\ FirstOccurring(InputCands, fl_help, fl_flags[1])
          /\ FirstOccurring(OutdirCands, fl_help, fl_flags[2])
    /\ fl_pc = "built" =>
          /\ fl_flags[1] = None => fl_cmd[3].kind = "csv"
          /\ fl_flags[1] # None =>
                fl_cmd[3] = Arg("flag", fl_flags[1], NoPath) /\ fl_cmd[4].kind = "csv"
          /\ fl_flags[2] = None => \A k \in DOMAIN fl_cmd : fl_cmd[k].kind # "dir"
          /\ fl_flags[2] # None =>
                /\ fl_cmd[Len(fl_cmd) - 1] = Arg("flag", fl_flags[2], NoPath)
                /\ fl_cmd[Len(fl_cmd)].kind = "dir"
          /\ (fl_flags = <<None, None>>) => Len(fl_cmd) = 3

\* C7 as stated: detection as above, and a flag is selected only if the help
\* text offers that flag.
C7_OnlyOfferedFlags ==
    /\ C7_FirstAliasInText
    /\ fl_pc \in {"cmd", "built"} =>
          /\ fl_flags[1] # None => Offers(fl_help, fl_flags[1])
          /\ fl_flags[2] # None => Offers(fl_help, fl_flags[2])

\* the help text names --input before --input-csv; --input-csv is selected
C7_Witness ==
    /\ fl_pc = "built"
    /\ fl_help = Usage(<<C_input, C_input_csv>>)
    /\ fl_flags = <<C_input_csv, None>>
    /\ Len(fl_cmd) = 4

\* ------------------------------------------------------ claims, smoke test
\* C10: the test passes exactly when the import succeeds and __version__ exists,
\* is a str and is not empty.
C10_SmokeTest ==
    t_pc \in {"passed", "failed"} =>
        ((t_pc = "passed") <=>
            /\ sost.importable
            /\ sost.has_version
            /\ sost.version.type = "str"
            /\ sost.version.value # <<>>)

\* a library whose __version__ is the empty string fails the test
C10_Witness ==
    /\ t_pc = "failed"
    /\ sost.importable
    /\ sost.has_version
    /\ sost.version = [type |-> "str", value |-> <<>>]
====
